---- MODULE Spec2Model ----
(***************************************************************************)
(* Model of the sentiment-analysis repository:                             *)
(*   benchmark/benchmark.py : normalize_label, p95, run_one, main          *)
(*   app/main.py            : PredictIn validation and POST /predict       *)
(*                                                                         *)
(* Python strings are sequences of one-character strings.  Floating point  *)
(* durations and scores are integers (microsecond ticks, per-mille).       *)
(* Four specifications share the variables; each one drives one part of    *)
(* the program and leaves the other variables at their idle values.        *)
(***************************************************************************)
EXTENDS Integers, Sequences, FiniteSets, TLC

VARIABLES
    \* ---- normalize_label driver
    npc, rawSrc, raw, nres,
    \* ---- p95 driver
    ppc, values, pres,
    \* ---- POST /predict
    apc, body, nlpOut, resp,
    \* ---- benchmark main() / run_one()
    pc, models, samples, runs_per_sample, behaviour, mi, si, ri,
    out, latencies_ms, correct, preds, all_results,
    failed, escaped, summary, detail, calls

normVars == <<npc, rawSrc, raw, nres>>
p95Vars == <<ppc, values, pres>>
apiVars == <<apc, body, nlpOut, resp>>
benchVars == <<pc, models, samples, runs_per_sample, behaviour, mi, si, ri,
               out, latencies_ms, correct, preds, all_results,
               failed, escaped, summary, detail, calls>>
vars == <<normVars, p95Vars, apiVars, benchVars>>

(***************************************************************************)
(* Bounds of the model                                                     *)
(***************************************************************************)
MaxPad == 1
MaxLen == 4
MaxVal == 3
MaxSamples == 2
MaxRuns == 2
MaxModels == 2
MaxEdge == 2

(***************************************************************************)
(* Python str primitives                                                   *)
(***************************************************************************)
UpperChars == <<"A","B","C","D","E","F","G","H","I","J","K","L","M",
                "N","O","P","Q","R","S","T","U","V","W","X","Y","Z">>
LowerChars == <<"a","b","c","d","e","f","g","h","i","j","k","l","m",
                "n","o","p","q","r","s","t","u","v","w","x","y","z">>

\* the characters str.strip() removes (those the inputs below use)
Whitespace == {" ", "\t", "\n"}

UpperSet == {UpperChars[i] : i \in 1..Len(UpperChars)}
LowerSet == {LowerChars[i] : i \in 1..Len(LowerChars)}
ToLower == [c \in UpperSet |-> LowerChars[CHOOSE i \in 1..Len(UpperChars) : UpperChars[i] = c]]
ToUpper == [c \in LowerSet |-> UpperChars[CHOOSE i \in 1..Len(LowerChars) : LowerChars[i] = c]]

CharLower(c) == IF c \in UpperSet THEN ToLower[c] ELSE c

CharUpper(c) == IF c \in LowerSet THEN ToUpper[c] ELSE c

\* str.lower()
lower(s) == [i \in 1..Len(s) |-> CharLower(s[i])]

\* str.upper()
upper(s) == [i \in 1..Len(s) |-> CharUpper(s[i])]

RECURSIVE lstrip(_)
lstrip(s) ==
    IF s # <<>> /\ Head(s) \in Whitespace THEN lstrip(Tail(s)) ELSE s

RECURSIVE rstrip(_)
rstrip(s) ==
    IF s # <<>> /\ s[Len(s)] \in Whitespace
    THEN rstrip(SubSeq(s, 1, Len(s) - 1))
    ELSE s

\* str.strip()
strip(s) == rstrip(lstrip(s))

(***************************************************************************)
(* Python values that can arrive as a raw label                            *)
(***************************************************************************)
PyStr(s) == [type |-> "str", s |-> s, v |-> 0]
None == [type |-> "none", s |-> <<>>, v |-> 0]
PyInt(n) == [type |-> "int", s |-> <<>>, v |-> n]

\* outcome of a call: a returned value, or the exception it raised
Return(x) == [exc |-> "", val |-> x]
Raise(e) == [exc |-> e, val |-> <<>>]

positive == <<"p","o","s","i","t","i","v","e">>
negative == <<"n","e","g","a","t","i","v","e">>
neutral == <<"n","e","u","t","r","a","l">>
unknown == <<"u","n","k","n","o","w","n">>
pos == <<"p","o","s">>
neg == <<"n","e","g">>
label_1 == <<"l","a","b","e","l","_","1">>
label_0 == <<"l","a","b","e","l","_","0">>
one == <<"1">>
zero == <<"0">>

PositiveVariants == {positive, pos, label_1, one}
NegativeVariants == {negative, neg, label_0, zero}

normalize_label_NeutralPassThrough(raw_label) ==
    IF raw_label.type = "none" THEN Return(unknown)
    ELSE IF raw_label.type # "str" THEN Raise("AttributeError")
    ELSE LET t == lower(strip(raw_label.s)) IN
         IF t \in PositiveVariants THEN Return(positive)
         ELSE IF t \in NegativeVariants THEN Return(negative)
         ELSE Return(t)

\* benchmark.py normalize_label: the value returned, or the exception raised
normalize_label(raw_label) ==
    IF raw_label.type = "none" THEN Return(unknown)
    \* raw_label.strip() on a value that is no str: AttributeError
    ELSE IF raw_label.type # "str" THEN Raise("AttributeError")
    ELSE LET t == lower(strip(raw_label.s)) IN
         IF t \in PositiveVariants THEN Return(positive)
         ELSE IF t \in NegativeVariants THEN Return(negative)
         ELSE IF t \in {neutral} THEN Return(negative)
         ELSE Return(t)

(***************************************************************************)
(* Driver of normalize_label: every raw label is a trimmed lower-case      *)
(* token, put in some letter case and padded with whitespace; or None; or  *)
(* a number.                                                               *)
(***************************************************************************)
mixed == <<"m","i","x","e","d">>
very_positive == <<"v","e","r","y"," ","p","o","s","i","t","i","v","e">>
label_2 == <<"l","a","b","e","l","_","2">>
positives == <<"p","o","s","i","t","i","v","e","s">>
two == <<"2">>
star5 == <<"5"," ","s","t","a","r","s">>

OtherTokens == {mixed, very_positive, label_2, positives, two, star5, unknown}
Tokens == PositiveVariants \cup NegativeVariants \cup {neutral} \cup OtherTokens \cup {<<>>}

RECURSIVE SeqsUpTo(_, _)
SeqsUpTo(S, n) ==
    IF n = 0 THEN {<<>>}
    ELSE LET shorter == SeqsUpTo(S, n - 1) IN
         shorter \cup {Append(q, x) : q \in shorter, x \in S}

Pads == SeqsUpTo(Whitespace, MaxPad)
Kases == {"lower", "upper", "title"}

InKase(k, t) ==
    CASE k = "lower" -> t
      [] k = "upper" -> upper(t)
      [] OTHER -> IF t = <<>> THEN t ELSE <<CharUpper(Head(t))>> \o Tail(t)

Assemble(src) ==
    CASE src.kind = "none" -> None
      [] src.kind = "int" -> PyInt(src.n)
      [] OTHER -> PyStr(src.lpad \o InKase(src.kase, src.token) \o src.rpad)

RawSources ==
    {[kind |-> "none", lpad |-> <<>>, token |-> <<>>, kase |-> "lower", rpad |-> <<>>, n |-> 0]}
    \cup {[kind |-> "int", lpad |-> <<>>, token |-> <<>>, kase |-> "lower", rpad |-> <<>>, n |-> n]
            : n \in 0..1}
    \cup {[kind |-> "str", lpad |-> l, token |-> t, kase |-> k, rpad |-> r, n |-> 0]
            : l \in Pads, t \in Tokens, k \in Kases, r \in Pads}

IdleNorm ==
    /\ npc = "idle" /\ rawSrc = CHOOSE r \in RawSources : r.kind = "none"
    /\ raw = None /\ nres = Return(<<>>)

InitNorm ==
    /\ npc = "call"
    /\ rawSrc \in RawSources
    /\ raw = Assemble(rawSrc)
    /\ nres = Return(<<>>)

\* the call normalize_label(raw)
CallNormalize ==
    /\ npc = "call"
    /\ nres' = normalize_label(raw)
    /\ npc' = "done"
    /\ UNCHANGED <<rawSrc, raw>>

(***************************************************************************)
(* p95 and the statistics of run_one                                       *)
(***************************************************************************)
RECURSIVE insert(_, _)
insert(x, s) ==
    IF s = <<>> THEN <<x>>
    ELSE IF x < Head(s) THEN <<x>> \o s
    ELSE <<Head(s)>> \o insert(x, Tail(s))

\* sorted(values): ascending
RECURSIVE sorted(_)
sorted(s) == IF s = <<>> THEN <<>> ELSE insert(s[Len(s)], sorted(SubSeq(s, 1, Len(s) - 1)))

\* int(0.95 * k) for k >= 0.  The double nearest 0.95 times k rounds to the
\* same integer part as the exact 95k/100 for every k below 200000.
int_095(k) == (95 * k) \div 100

p95_IndexFromLen(vals) ==
    IF vals = <<>> THEN 0
    ELSE LET s == sorted(vals)
             idx == int_095(Len(s))
         IN  s[(IF idx < Len(s) THEN idx ELSE Len(s) - 1) + 1]

\* benchmark.py p95 (Python indexes from 0, sequences here from 1)
p95(vals) ==
    IF vals = <<>> THEN 0
    ELSE LET s == sorted(vals)
             idx == int_095(Len(s) - 1)
         IN  s[idx + 1]

\* inputs of the p95 driver: every short sequence, and sequences of 20
\* values (strictly increasing, and the same values reversed or rotated)
Ramp(base, step) == [i \in 1..20 |-> base + step * i]
Reverse(s) == [i \in 1..Len(s) |-> s[Len(s) + 1 - i]]
Rotate(s, k) == [i \in 1..Len(s) |-> s[((i - 1 + k) % Len(s)) + 1]]

P95Inputs ==
    SeqsUpTo(0..MaxVal, MaxLen)
    \cup {Ramp(b, st) : b \in 0..MaxVal, st \in 1..2}
    \cup {Reverse(Ramp(b, st)) : b \in 0..MaxVal, st \in 1..2}
    \cup {Rotate(Ramp(b, 1), k) : b \in 0..MaxVal, k \in 1..MaxLen}

IdleP95 == ppc = "idle" /\ values = <<>> /\ pres = 0

InitP95 ==
    /\ ppc = "call"
    /\ values \in P95Inputs
    /\ pres = 0

\* the call p95(values)
CallP95 ==
    /\ ppc = "call"
    /\ pres' = p95(values)
    /\ ppc' = "done"
    /\ UNCHANGED values

(***************************************************************************)
(* app/main.py: POST /predict                                              *)
(*                                                                         *)
(* A text is kept by its shape: `lead` whitespace characters, a `core`     *)
(* that starts and ends with a non-whitespace character (core = 0: the     *)
(* text is whitespace only), and `trail` whitespace characters.            *)
(***************************************************************************)
min_length == 1
max_length == 2000

Text(l, c, t) == [lead |-> l, core |-> c, trail |-> t]
TextLen(x) == x.lead + x.core + x.trail

\* payload.text.strip()
text_strip(x) == Text(0, x.core, 0)

EdgeLens == (0..MaxEdge) \cup ((max_length - MaxEdge)..(max_length + MaxEdge))

Bodies ==
    {[has_text |-> FALSE, text |-> Text(0, 0, 0)]}
    \cup {[has_text |-> TRUE, text |-> Text(l, c, t)] :
            l \in EdgeLens, c \in EdgeLens, t \in 0..MaxEdge}

POSITIVE == upper(positive)
NEGATIVE == upper(negative)

NoResp == [status |-> 0, detail |-> "", text |-> Text(0, 0, 0),
           sentiment |-> <<>>, confidence |-> 0]

PredictIn_NoMax(b) ==
    b.has_text /\ TextLen(b.text) >= min_length

\* PredictIn: text is required, Field(..., min_length=1, max_length=2000)
PredictIn(b) ==
    /\ b.has_text
    /\ TextLen(b.text) >= min_length
    /\ TextLen(b.text) <= max_length

IdleApi ==
    /\ apc = "idle" /\ body = [has_text |-> FALSE, text |-> Text(0, 0, 0)]
    /\ nlpOut = Raise("") /\ resp = NoResp

InitApi ==
    /\ apc = "request"
    /\ body \in Bodies
    /\ nlpOut = Raise("")
    /\ resp = NoResp

\* FastAPI validates the body against PredictIn before predict() runs;
\* a body that fails validation is answered 422 and predict() is not called
ValidateBody ==
    /\ apc = "request"
    /\ IF PredictIn(body)
       THEN /\ apc' = "predict"
            /\ UNCHANGED resp
       ELSE /\ apc' = "done"
            /\ resp' = [NoResp EXCEPT !.status = 422, !.detail = "validation error"]
    /\ UNCHANGED <<body, nlpOut>>

\* what nlp(text) can do: raise, or return [{'label': ..., 'score': ...}]
NlpOutcomes ==
    {Raise("RuntimeError")}
    \cup {Return([label |-> l, score |-> sc]) : l \in {POSITIVE, NEGATIVE}, sc \in {501, 999}}

\* predict(payload)
predict ==
    /\ apc = "predict"
    /\ LET text == text_strip(body.text) IN
       IF TextLen(text) = 0
       THEN /\ resp' = [NoResp EXCEPT !.status = 400, !.detail = "Text must not be empty"]
            /\ UNCHANGED nlpOut
       ELSE \E o \in NlpOutcomes :
            /\ nlpOut' = o
            /\ IF o.exc # ""
               THEN resp' = [NoResp EXCEPT !.status = 500, !.detail = "Inference error"]
               ELSE resp' = [status |-> 200, detail |-> "", text |-> text,
                             sentiment |-> lower(o.val.label),
                             confidence |-> o.val.score]
    /\ apc' = "done"
    /\ UNCHANGED body

(***************************************************************************)
(* benchmark/benchmark.py: configuration                                   *)
(***************************************************************************)
MODELS ==
    << [id |-> "distilbert-base-uncased-finetuned-sst-2-english",
        pretty |-> "DistilBERT SST-2 (HF)"],
       [id |-> "textattack/distilbert-base-uncased-SST-2",
        pretty |-> "TextAttack DistilBERT SST-2"],
       [id |-> "textattack/albert-base-v2-SST-2",
        pretty |-> "TextAttack ALBERT v2 SST-2"] >>

SAMPLES ==
    << [text |-> "I absolutely love this!", expected |-> positive],
       [text |-> "This is the best thing ever.", expected |-> positive],
       [text |-> "Not bad at all, pretty good.", expected |-> positive],
       [text |-> "I hated the experience.", expected |-> negative],
       [text |-> "This is terrible and disappointing.", expected |-> negative],
       [text |-> "I wouldn't recommend it.", expected |-> negative],
       [text |-> "It's okay, nothing special.", expected |-> negative],
       [text |-> "I am pleasantly surprised.", expected |-> positive] >>

RUNS_PER_SAMPLE == 3

(***************************************************************************)
(* The opaque classifier.  A behaviour fixes, per sample, the label of the *)
(* last repeated call; every earlier repeat answers with another label.    *)
(* The score of a call is different for every (sample, repeat).  The       *)
(* duration of the k-th timed call follows a cost pattern.                 *)
(***************************************************************************)
Neutral == InKase("title", neutral)

SmallLabels == {PyStr(POSITIVE), PyStr(NEGATIVE), PyStr(Neutral), None}

CostPattern == <<3, 1, 2>>

Flip(expected) == IF expected = positive THEN NEGATIVE ELSE POSITIVE

\* the label a gold-set behaviour gives sample i on its last call
GoldLabel(i, wrong) ==
    LET e == SAMPLES[i].expected IN
    IF i \notin wrong THEN PyStr(upper(e))
    ELSE CASE i % 3 = 0 -> PyStr(Flip(e))
           [] i % 3 = 1 -> PyStr(mixed)
           [] OTHER -> None

EarlyLabel(final) ==
    IF final = PyStr(POSITIVE) THEN PyStr(NEGATIVE) ELSE PyStr(POSITIVE)

\* clf(text)[0] for sample i, repeat r of runs
ClfOutput(beh, i, r, runs) ==
    [bound |-> TRUE,
     label |-> IF r = runs THEN beh.final[i] ELSE EarlyLabel(beh.final[i]),
     score |-> 500 + 10 * i + r]

\* perf_counter() difference around the k-th timed call (k from 0)
CallCost(beh, k) == beh.cost[(k % Len(beh.cost)) + 1]

\* short sample sets: runs of n consecutive SAMPLES, starting at a positive
\* sample followed by negative ones, or at a negative one followed by a
\* positive one
WindowStarts == {3, 7}
Windows(n) == {SubSeq(SAMPLES, a, a + n - 1) :
                 a \in {w \in WindowStarts : w + n - 1 <= Len(SAMPLES)}}

ModelLists == {SubSeq(MODELS, 1, k) :
                 k \in 0..(IF MaxModels < Len(MODELS) THEN MaxModels ELSE Len(MODELS))}

\* short configurations: any label on every sample's last call
SmallConfigs ==
    UNION {
      {[models |-> ms, samples |-> w, runs |-> r,
        behaviour |-> [final |-> f, cost |-> CostPattern]] :
          ms \in ModelLists, w \in Windows(n), r \in 0..MaxRuns,
          f \in [1..n -> SmallLabels]}
      : n \in 0..MaxSamples}

\* the configuration of the source; the classifier mispredicts none, one,
\* half or all of the samples
GoldConfigs ==
    {[models |-> MODELS, samples |-> SAMPLES, runs |-> RUNS_PER_SAMPLE,
      behaviour |-> [final |-> [i \in 1..Len(SAMPLES) |-> GoldLabel(i, wrong)],
                     cost |-> CostPattern]] :
        wrong \in {w \in SUBSET (1..Len(SAMPLES)) :
                      Cardinality(w) \in {0, 1, Len(SAMPLES) \div 2, Len(SAMPLES)}}}

Configs == SmallConfigs \cup GoldConfigs

Unbound == [bound |-> FALSE, label |-> None, score |-> 0]

IdleBench ==
    /\ pc = "idle" /\ models = <<>> /\ samples = <<>> /\ runs_per_sample = 0
    /\ behaviour = [final |-> <<>>, cost |-> <<1>>]
    /\ mi = 0 /\ si = 0 /\ ri = 0 /\ out = Unbound
    /\ latencies_ms = <<>> /\ correct = 0 /\ preds = <<>> /\ all_results = <<>>
    /\ failed = <<>> /\ escaped = "" /\ summary = <<>> /\ detail = <<>>
    /\ calls = <<>>

InitBench ==
    /\ pc = "for_model"
    /\ \E cfg \in Configs :
         /\ models = cfg.models
         /\ samples = cfg.samples
         /\ runs_per_sample = cfg.runs
         /\ behaviour = cfg.behaviour
    /\ mi = 0 /\ si = 0 /\ ri = 0 /\ out = Unbound
    /\ latencies_ms = <<>> /\ correct = 0 /\ preds = <<>> /\ all_results = <<>>
    /\ failed = <<>> /\ escaped = "" /\ summary = <<>> /\ detail = <<>>
    /\ calls = <<>>

(***************************************************************************)
(* statistics.mean / statistics.median / min / max: a fraction num/den,    *)
(* or the exception raised on an empty sequence                            *)
(***************************************************************************)
Frac(n, d) == [num |-> n, den |-> d]

RECURSIVE Sum(_)
Sum(s) == IF s = <<>> THEN 0 ELSE Head(s) + Sum(Tail(s))

mean(s) ==
    IF s = <<>> THEN Raise("StatisticsError") ELSE Return(Frac(Sum(s), Len(s)))

median(s) ==
    IF s = <<>> THEN Raise("StatisticsError")
    ELSE LET d == sorted(s)
             n == Len(d)
         IN  IF n % 2 = 1 THEN Return(Frac(d[(n \div 2) + 1], 1))
             ELSE Return(Frac(d[n \div 2] + d[(n \div 2) + 1], 2))

min(s) ==
    IF s = <<>> THEN Raise("ValueError")
    ELSE Return(CHOOSE x \in {s[i] : i \in 1..Len(s)} : \A j \in 1..Len(s) : x <= s[j])

max(s) ==
    IF s = <<>> THEN Raise("ValueError")
    ELSE Return(CHOOSE x \in {s[i] : i \in 1..Len(s)} : \A j \in 1..Len(s) : x >= s[j])

\* correct / n
divide(a, b) == IF b = 0 THEN Raise("ZeroDivisionError") ELSE Return(Frac(a, b))

\* the first exception among the outcomes, in evaluation order ("" if none)
FirstExc(outcomes) ==
    IF \E i \in 1..Len(outcomes) : outcomes[i].exc # ""
    THEN outcomes[CHOOSE i \in 1..Len(outcomes) :
                    /\ outcomes[i].exc # ""
                    /\ \A j \in 1..(i - 1) : outcomes[j].exc = ""].exc
    ELSE ""

\* run_one lines 102-114: the metrics dict, or the exception raised building it
metrics(lat, corr, prs, smp, runs) ==
    LET n == Len(smp)
        avg == mean(lat)
        mn == min(lat)
        mx == max(lat)
        med == median(lat)
        acc == divide(corr, n)
        exc == FirstExc(<<avg, mn, mx, med, acc>>)
    IN  IF exc # "" THEN Raise(exc)
        ELSE Return([avg_ms |-> avg.val, min_ms |-> mn.val, max_ms |-> mx.val,
                     med_ms |-> med.val, p95_ms |-> p95(lat), acc |-> acc.val,
                     preds |-> prs, num_samples |-> n, runs_per_sample |-> runs])

(***************************************************************************)
(* run_one and main, one step at a time                                    *)
(***************************************************************************)
main_except_Propagates(e) ==
    /\ escaped' = e
    /\ pc' = "done"
    /\ UNCHANGED failed

\* main lines 125-128: except Exception as e: print(...); continue
main_except(e) ==
    /\ failed' = Append(failed, [model |-> models[mi].id, error |-> e])
    /\ pc' = "for_model"
    /\ UNCHANGED escaped

record_latency_LastRunOnly(lat, dt, r, runs) ==
    IF r = runs THEN Append(lat, dt) ELSE lat

\* line 94: latencies_ms.append(dt_ms), for repeat r of runs
record_latency(lat, dt, r, runs) == Append(lat, dt)

assign_out_KeepFirst(old, new) == IF old.bound THEN old ELSE new

\* line 92: out = clf(text)[0]
assign_out(old, new) == new

is_correct_Lenient(pred_label, expected) ==
    pred_label \notin {positive, negative} \/ pred_label = expected

\* line 99: pred_label == expected
is_correct(pred_label, expected) == pred_label = expected

\* main line 120: the for loop over MODELS takes the next model and calls
\* run_one, or ends
ForModel ==
    /\ pc = "for_model"
    /\ IF mi < Len(models)
       THEN /\ mi' = mi + 1
            /\ pc' = "pipeline"
            /\ si' = 0 /\ ri' = 0 /\ out' = Unbound
            /\ latencies_ms' = <<>> /\ correct' = 0 /\ preds' = <<>>
            /\ calls' = <<>>
       ELSE /\ pc' = "report"
            /\ UNCHANGED <<mi, si, ri, out, latencies_ms, correct, preds, calls>>
    /\ UNCHANGED <<models, samples, runs_per_sample, behaviour, all_results,
                   failed, escaped, summary, detail>>

\* run_one line 80: clf = pipeline(...), which may raise
Pipeline ==
    /\ pc = "pipeline"
    /\ \E ok \in BOOLEAN :
         IF ok THEN pc' = "warmup" /\ UNCHANGED <<failed, escaped>>
         ELSE main_except("OSError")
    /\ UNCHANGED <<models, samples, runs_per_sample, behaviour, mi, si, ri, out,
                   latencies_ms, correct, preds, all_results, summary, detail, calls>>

\* run_one lines 83-87: the untimed warm-up call, then the locals
Warmup ==
    /\ pc = "warmup"
    /\ \E ok \in BOOLEAN :
         /\ calls' = Append(calls, [kind |-> "warmup", si |-> 0, ri |-> 0,
                                    raised |-> ~ok, label |-> None, score |-> 0,
                                    cost |-> 0])
         /\ IF ok THEN pc' = "for_sample" /\ UNCHANGED <<failed, escaped>>
            ELSE main_except("RuntimeError")
    /\ latencies_ms' = <<>> /\ correct' = 0 /\ preds' = <<>>
    /\ UNCHANGED <<models, samples, runs_per_sample, behaviour, mi, si, ri, out,
                   all_results, summary, detail>>

\* run_one line 89: the for loop over SAMPLES takes the next sample
ForSample ==
    /\ pc = "for_sample"
    /\ si < Len(samples)
    /\ si' = si + 1
    /\ ri' = 0
    /\ pc' = "for_run"
    /\ UNCHANGED <<models, samples, runs_per_sample, behaviour, mi, out,
                   latencies_ms, correct, preds, all_results, failed, escaped,
                   summary, detail, calls>>

\* run_one lines 90-94: one timed inference call
TimedCall ==
    /\ pc = "for_run"
    /\ ri < runs_per_sample
    /\ ri' = ri + 1
    /\ \E ok \in BOOLEAN :
         LET o == ClfOutput(behaviour, si, ri + 1, runs_per_sample)
             dt == CallCost(behaviour, (si - 1) * runs_per_sample + ri)
         IN  /\ calls' = Append(calls, [kind |-> "timed", si |-> si, ri |-> ri + 1,
                                        raised |-> ~ok, label |-> o.label,
                                        score |-> o.score, cost |-> dt])
             /\ IF ok
                THEN /\ out' = assign_out(out, o)
                     /\ latencies_ms' = record_latency(latencies_ms, dt, ri + 1,
                                                       runs_per_sample)
                     /\ pc' = "for_run"
                     /\ UNCHANGED <<failed, escaped>>
                ELSE /\ main_except("RuntimeError")
                     /\ UNCHANGED <<out, latencies_ms>>
    /\ UNCHANGED <<models, samples, runs_per_sample, behaviour, mi, si, correct,
                   preds, all_results, summary, detail>>

\* run_one lines 96-100: after the repeats of a sample
Score ==
    /\ pc = "for_run"
    /\ ri = runs_per_sample
    /\ IF ~out.bound
       THEN /\ main_except("UnboundLocalError")
            /\ UNCHANGED <<preds, correct>>
       ELSE LET r == normalize_label(out.label) IN
            IF r.exc # ""
            THEN /\ main_except(r.exc)
                 /\ UNCHANGED <<preds, correct>>
            ELSE /\ preds' = Append(preds, [text |-> samples[si].text,
                                            expected |-> samples[si].expected,
                                            pred |-> r.val, conf |-> out.score])
                 /\ correct' = IF is_correct(r.val, samples[si].expected)
                               THEN correct + 1 ELSE correct
                 /\ pc' = "for_sample"
                 /\ UNCHANGED <<failed, escaped>>
    /\ UNCHANGED <<models, samples, runs_per_sample, behaviour, mi, si, ri, out,
                   latencies_ms, all_results, summary, detail, calls>>

\* run_one lines 102-114 and main line 124: the metrics are built and the
\* result is appended to all_results
Metrics ==
    /\ pc = "for_sample"
    /\ si = Len(samples)
    /\ LET m == metrics(latencies_ms, correct, preds, samples, runs_per_sample) IN
       IF m.exc # ""
       THEN /\ main_except(m.exc)
            /\ UNCHANGED all_results
       ELSE /\ all_results' = Append(all_results,
                                     [model_id |-> models[mi].id,
                                      pretty |-> models[mi].pretty,
                                      res |-> m.val])
            /\ pc' = "for_model"
            /\ UNCHANGED <<failed, escaped>>
    /\ UNCHANGED <<models, samples, runs_per_sample, behaviour, mi, si, ri, out,
                   latencies_ms, correct, preds, summary, detail, calls>>

RECURSIVE Flatten(_)
Flatten(ss) == IF ss = <<>> THEN <<>> ELSE Head(ss) \o Flatten(Tail(ss))

\* main lines 130-147: the summary table and the per-sample table
\* (numbers are kept as computed, before their %.1f / %.4f rendering;
\*  no sample text holds a "|", so the escaped text is the text)
Report ==
    /\ pc = "report"
    /\ summary' = [k \in 1..Len(all_results) |->
                     [pretty |-> all_results[k].pretty,
                      avg_ms |-> all_results[k].res.avg_ms,
                      med_ms |-> all_results[k].res.med_ms,
                      p95_ms |-> all_results[k].res.p95_ms,
                      min_ms |-> all_results[k].res.min_ms,
                      max_ms |-> all_results[k].res.max_ms,
                      acc |-> all_results[k].res.acc]]
    /\ detail' = Flatten([k \in 1..Len(all_results) |->
                     [j \in 1..Len(all_results[k].res.preds) |->
                        [pretty |-> all_results[k].pretty,
                         text |-> all_results[k].res.preds[j].text,
                         expected |-> all_results[k].res.preds[j].expected,
                         pred |-> all_results[k].res.preds[j].pred,
                         conf |-> all_results[k].res.preds[j].conf]]])
    /\ pc' = "done"
    /\ UNCHANGED <<models, samples, runs_per_sample, behaviour, mi, si, ri, out,
                   latencies_ms, correct, preds, all_results, failed, escaped,
                   calls>>

(***************************************************************************)
(* Specifications                                                          *)
(***************************************************************************)
Init == InitBench /\ IdleNorm /\ IdleP95 /\ IdleApi
Next ==
    \/ (ForModel /\ UNCHANGED <<normVars, p95Vars, apiVars>>)
    \/ (Pipeline /\ UNCHANGED <<normVars, p95Vars, apiVars>>)
    \/ (Warmup /\ UNCHANGED <<normVars, p95Vars, apiVars>>)
    \/ (ForSample /\ UNCHANGED <<normVars, p95Vars, apiVars>>)
    \/ (TimedCall /\ UNCHANGED <<normVars, p95Vars, apiVars>>)
    \/ (Score /\ UNCHANGED <<normVars, p95Vars, apiVars>>)
    \/ (Metrics /\ UNCHANGED <<normVars, p95Vars, apiVars>>)
    \/ (Report /\ UNCHANGED <<normVars, p95Vars, apiVars>>)
Spec == Init /\ [][Next]_vars

NormInit == InitNorm /\ IdleP95 /\ IdleApi /\ IdleBench
NormNext == CallNormalize /\ UNCHANGED <<p95Vars, apiVars, benchVars>>
SpecNorm == NormInit /\ [][NormNext]_vars

P95Init == InitP95 /\ IdleNorm /\ IdleApi /\ IdleBench
P95Next == CallP95 /\ UNCHANGED <<normVars, apiVars, benchVars>>
SpecP95 == P95Init /\ [][P95Next]_vars

ApiInit == InitApi /\ IdleNorm /\ IdleP95 /\ IdleBench
ApiNext ==
    \/ (ValidateBody /\ UNCHANGED <<normVars, p95Vars, benchVars>>)
    \/ (predict /\ UNCHANGED <<normVars, p95Vars, benchVars>>)
SpecApi == ApiInit /\ [][ApiNext]_vars

(***************************************************************************)
(* Properties                                                              *)
(***************************************************************************)
FailedIds == {failed[i].model : i \in 1..Len(failed)}
Succeeded == SelectSeq(models, LAMBDA m : m.id \notin FailedIds)
Pretties(rows) == [k \in 1..Len(rows) |-> rows[k].pretty]

\* a sequence with every run of equal neighbours collapsed to one element
RECURSIVE Collapse(_)
Collapse(s) ==
    IF Len(s) <= 1 THEN s
    ELSE IF s[1] = s[2] THEN Collapse(Tail(s))
    ELSE <<s[1]>> \o Collapse(Tail(s))

\* C1: whatever subset of the models raises in run_one (load, warm-up, any
\* inference call, or later), no exception leaves main(), every model is
\* visited, and the summary and detail tables hold exactly the models that
\* did not fail, in evaluation order.
C1_FailureIsolation ==
    /\ escaped = ""
    /\ pc = "done" =>
         /\ mi = Len(models)
         /\ Len(failed) + Len(summary) = Len(models)
         /\ Pretties(summary) = Pretties(Succeeded)
         /\ Collapse(Pretties(detail)) = Pretties(Succeeded)

C1_Witness ==
    /\ pc = "done"
    /\ Len(models) = 2
    /\ Len(failed) = 1 /\ failed[1].model = models[2].id
    /\ Len(summary) = 1 /\ summary[1].pretty = models[1].pretty
    /\ detail # <<>>

\* C2: for a raw label that is non-empty once trimmed, normalize_label
\* returns "positive" for positive/pos/label_1/1, "negative" for
\* negative/neg/label_0/0/neutral (in any letter case, with any whitespace
\* around), and otherwise the trimmed label in lower case.
C2_NormalizeMapping ==
    (npc = "done" /\ rawSrc.kind = "str" /\ rawSrc.token # <<>>) =>
        /\ nres.exc = ""
        /\ nres.val =
             IF rawSrc.token \in {positive, pos, label_1, one} THEN positive
             ELSE IF rawSrc.token \in {negative, neg, label_0, zero, neutral}
                  THEN negative
             ELSE rawSrc.token

C2_Witness ==
    /\ npc = "done"
    /\ rawSrc.kind = "str" /\ rawSrc.token = very_positive
    /\ rawSrc.kase = "upper" /\ rawSrc.lpad # <<>> /\ rawSrc.rpad # <<>>
    /\ nres = Return(very_positive)

\* C3: normalize_label never raises, and returns "unknown" for a null raw
\* label and for one that is empty once trimmed.
C3_NeverRaisesUnknownOnEmpty ==
    npc = "done" =>
        /\ nres.exc = ""
        /\ (rawSrc.kind = "none" \/ (rawSrc.kind = "str" /\ rawSrc.token = <<>>))
             => nres.val = unknown

\* C4: p95 is 0.0 on the empty sequence, x on [x], and otherwise the value
\* of rank floor(0.95 * (n - 1)) (from 0) in ascending order, whatever the
\* input order; on 20 strictly increasing values that is the one at index 18.
C4_P95Rank ==
    ppc = "done" =>
        LET n == Len(values)
            idx == (95 * (n - 1)) \div 100
            below == {i \in 1..n : values[i] < pres}
            upto == {i \in 1..n : values[i] <= pres}
        IN  /\ n = 0 => pres = 0
            /\ n = 1 => pres = values[1]
            /\ n > 0 => /\ \E i \in 1..n : values[i] = pres
                        /\ Cardinality(below) <= idx
                        /\ Cardinality(upto) > idx
            /\ (n = 20 /\ \A i \in 1..19 : values[i] < values[i + 1])
                 => pres = values[19]

C4_Witness ==
    /\ ppc = "done"
    /\ Len(values) = 20
    /\ \A i \in 1..19 : values[i] < values[i + 1]
    /\ pres = values[19]

\* C5: the status of POST /predict: 422 without calling the model when
\* 'text' is missing, empty or longer than 2000 characters; otherwise 400
\* "Text must not be empty" without calling the model when the text is
\* whitespace only; otherwise the model is called, and the answer is 200
\* when it returns and 500 "Inference error" when it raises.
C5_PredictStatus ==
    apc = "done" =>
        LET n == body.text.lead + body.text.core + body.text.trail
            notCalled == nlpOut = Raise("")
        IN  IF ~body.has_text \/ n = 0 \/ n > 2000
            THEN resp.status = 422 /\ notCalled
            ELSE IF body.text.core = 0
            THEN /\ resp.status = 400 /\ notCalled
                 /\ resp.detail = "Text must not be empty"
            ELSE \/ /\ nlpOut.exc = "" /\ resp.status = 200
                    /\ resp.text.lead = 0 /\ resp.text.trail = 0
                 \/ /\ nlpOut.exc = "RuntimeError" /\ resp.status = 500
                    /\ resp.detail = "Inference error"

C5_Witness ==
    /\ apc = "done"
    /\ body.has_text /\ body.text.core = 0
    /\ body.text.lead + body.text.trail = 2000
    /\ resp.status = 400

\* C6: the accuracy of every Model Result is the number of samples whose
\* normalized prediction equals the expected label, over the number of
\* samples; a pass-through or "unknown" prediction is not a hit; 8 hits of
\* 8 is 1.0 and 4 hits of 8 is 0.5.
C6_Accuracy ==
    \A k \in 1..Len(all_results) :
        LET r == all_results[k].res
            hits == {i \in 1..Len(r.preds) : r.preds[i].pred = samples[i].expected}
            known == {i \in 1..Len(r.preds) : r.preds[i].pred \in {positive, negative}}
        IN  /\ Len(r.preds) = Len(samples)
            /\ r.acc.num = Cardinality(hits)
            /\ r.acc.den = Len(samples)
            /\ hits \subseteq known
            /\ (Len(samples) = 8 /\ Cardinality(hits) = 8) => r.acc.num = r.acc.den
            /\ (Len(samples) = 8 /\ Cardinality(hits) = 4) => 2 * r.acc.num = r.acc.den

C6_Witness ==
    \E k \in 1..Len(all_results) :
        LET r == all_results[k].res IN
        /\ r.num_samples = 8
        /\ r.acc = Frac(4, 8)
        /\ \E i \in 1..8 : r.preds[i].pred = mixed
        /\ \E i \in 1..8 : r.preds[i].pred = unknown

RunOneCompleted ==
    /\ pc = "for_model" /\ mi >= 1
    /\ all_results # <<>>
    /\ all_results[Len(all_results)].model_id = models[mi].id

TimedReturned == SelectSeq(calls, LAMBDA c : c.kind = "timed" /\ ~c.raised)

\* C7: the latency sequence holds the duration of every timed call that
\* returned, in call order, and nothing for the warm-up call; when run_one
\* completes it holds num_samples * runs_per_sample durations.
C7_LatencyPerTimedCall ==
    /\ pc \in {"for_sample", "for_run"} =>
         latencies_ms = [j \in 1..Len(TimedReturned) |-> TimedReturned[j].cost]
    /\ RunOneCompleted =>
         /\ latencies_ms = [j \in 1..Len(TimedReturned) |-> TimedReturned[j].cost]
         /\ Len(latencies_ms) = Len(samples) * runs_per_sample

C7_Witness ==
    /\ RunOneCompleted
    /\ Len(samples) = 8 /\ runs_per_sample = 3
    /\ Len(latencies_ms) = 24
    /\ Len(calls) = 25

SetMax(S) == CHOOSE x \in S : \A y \in S : y <= x

\* C8: the prediction and confidence recorded for a sample, and the hit
\* counted for it, come from the last of that sample's repeated calls.
C8_LastCallScored ==
    /\ \A i \in 1..Len(preds) :
         LET c == {j \in 1..Len(calls) : calls[j].kind = "timed" /\ calls[j].si = i}
             last == calls[SetMax(c)]
         IN  /\ Cardinality(c) = runs_per_sample
             /\ c # {}
             /\ last.ri = runs_per_sample
             /\ preds[i].text = samples[i].text
             /\ preds[i].pred = normalize_label(last.label).val
             /\ preds[i].conf = last.score
    /\ pc \in {"for_sample", "for_run"} =>
         correct = Cardinality({i \in 1..Len(preds) :
                                  preds[i].pred = samples[i].expected})

C8_Witness ==
    /\ pc = "for_sample"
    /\ runs_per_sample >= 2
    /\ Len(preds) >= 2
    /\ correct = 1

\* C9: every model gets exactly one untimed warm-up call, before its first
\* timed call, and a warm-up call that raises does not end the model's
\* evaluation: the model is not reported as failed because of it.
C9_WarmupFailureSwallowed ==
    /\ \A j \in 1..Len(calls) : (calls[j].kind = "warmup") <=> (j = 1)
    /\ (calls # <<>> /\ calls[1].raised) => models[mi].id \notin FailedIds

\* C10: with no samples, building the metrics does not raise: a Model
\* Result is produced for a model whose warm-up returned, with mean,
\* minimum, maximum, median and 95th percentile 0.0.
C10_EmptySamplesZeroStats ==
    (samples = <<>> /\ pc = "for_model" /\ mi >= 1
        /\ calls # <<>> /\ ~calls[1].raised) =>
        /\ RunOneCompleted
        /\ LET r == all_results[Len(all_results)].res IN
           /\ r.avg_ms.num = 0 /\ r.med_ms.num = 0
           /\ r.min_ms = 0 /\ r.max_ms = 0 /\ r.p95_ms = 0

====
